---------------------------- MODULE Spec2Model ----------------------------
(***************************************************************************)
(* Model of ubift's raw-image layer                                        *)
(* (src/ubift/src/framework/disk_image_layer/mtd.py): the Image            *)
(* constructor with its geometry inference and out-of-band stripping, and  *)
(* the partition table with get_full_partitions().                         *)
(*                                                                         *)
(* Buffers are sequences of byte values; Python's 0-based offsets are kept *)
(* in every operator (Slice, FindSignature, ...) and translated to TLA+'s  *)
(* 1-based sequences only inside Slice and Build.                          *)
(***************************************************************************)
EXTENDS Integers, Sequences, FiniteSets, TLC

VARIABLES
    data,            \* Image.__init__ argument: the raw buffer
    block_size,      \* Image.__init__ argument
    page_size,       \* Image.__init__ argument
    oob_size,        \* Image.__init__ argument
    built,           \* how the raw buffer was laid out (input description)
    pc,              \* position inside Image.__init__, "done" or "raised"
    error,           \* exception that ended the constructor, or "none"
    log,             \* ubiftlog.error records written by the constructor
    _oob_size,       \* Image._oob_size
    _page_size,      \* Image._page_size   (0 while not yet assigned)
    _block_size,     \* Image._block_size  (0 while not yet assigned)
    _data,           \* Image._data        (<<>> while not yet assigned)
    has_data,        \* whether Image._data has been assigned
    scan_page,       \* the object handed to _guess_page_size, or "none"
    scan_block,      \* the object handed to _guess_block_size, or "none"
    _partitions,     \* Image._partitions
    full_partitions, \* outcome of the last get_full_partitions() call
    strip_in,        \* arguments of a direct Image.strip_oob call
    strip_out        \* outcome of that call

vars == <<data, block_size, page_size, oob_size, built, pc, error, log,
          _oob_size, _page_size, _block_size, _data, has_data,
          scan_page, scan_block, _partitions, full_partitions,
          strip_in, strip_out>>

ctorVars == <<data, block_size, page_size, oob_size, built, pc, error, log,
              _oob_size, _page_size, _block_size, _data, has_data,
              scan_page, scan_block>>

(***************************************************************************)
(* Bounds of the model.                                                    *)
(***************************************************************************)
MaxBlocks == 3      \* erase blocks in a synthetic buffer
MaxPages == 3       \* pages per erase block in a synthetic buffer
MaxStripLen == 6    \* length of the short buffers given to strip_oob
MaxImageBlocks == 4 \* erase blocks of the image carrying the partition table

PageSizes == {64, 128}
PhysOobSize == 16

(***************************************************************************)
(* Program constants.                                                      *)
(***************************************************************************)
OobStride == 2112        \* the literal step of strip_oob's page loop
CandidateEnd == 512      \* range(1, 512) in _guess_block_size

\* UBI_EC_HDR.__magic__ : b"UBI#"
UBI_EC_HDR_magic == <<85, 66, 73, 35>>
\* byte offset and width of the big-endian vid_hdr_offset field in ubi_ec_hdr
VidHdrOffsetPos == 16
VidHdrOffsetLen == 4

(***************************************************************************)
(* Python primitives.                                                      *)
(***************************************************************************)
MinOf(S) == CHOOSE x \in S : \A y \in S : x <= y

MinInt(a, b) == IF a <= b THEN a ELSE b

\* data[a:b] for 0 <= a, 0 <= b (Python clamps both ends to len(data))
Slice(d, a, b) ==
    IF a >= Len(d) \/ b <= a THEN <<>>
    ELSE SubSeq(d, a + 1, MinInt(b, Len(d)))

\* a % b with Python's sign convention (result has the sign of b); b # 0
PyMod(a, b) == IF b > 0 THEN a % b ELSE 0 - ((0 - a) % (0 - b))

\* ubift.src.framework.base.find_signature(data, signature, start):
\* first offset >= start at which signature occurs, -1 when there is none
FindSignature(d, sig, start) ==
    LET hits == {i \in start .. (Len(d) - Len(sig)) :
                    \A k \in 1 .. Len(sig) : d[i + k] = sig[k]}
    IN IF hits = {} THEN -1 ELSE MinOf(hits)

RECURSIVE BigEndian(_)
BigEndian(bytes) ==
    IF bytes = <<>> THEN 0
    ELSE 256 * BigEndian(SubSeq(bytes, 1, Len(bytes) - 1)) + bytes[Len(bytes)]

\* UBI_EC_HDR(data, offset).vid_hdr_offset : the __be32 field of the header
EcHdrVidHdrOffset(d, offset) ==
    BigEndian(Slice(d, offset + VidHdrOffsetPos,
                       offset + VidHdrOffsetPos + VidHdrOffsetLen))

(***************************************************************************)
(* Image._guess_page_size                                                  *)
(***************************************************************************)
GuessPageSizeNoCheck(d) ==
    LET ec_hdr_offset == FindSignature(d, UBI_EC_HDR_magic, 0)
    IN IF ec_hdr_offset < 0
       THEN [err |-> "UBIFTException", val |-> 0]
       ELSE [err |-> "none", val |-> EcHdrVidHdrOffset(d, ec_hdr_offset)]

GuessPageSize(d) ==
    LET ec_hdr_offset == FindSignature(d, UBI_EC_HDR_magic, 0)
    IN IF ec_hdr_offset < 0
       THEN [err |-> "UBIFTException", val |-> 0]
       ELSE LET vid_hdr_offset == EcHdrVidHdrOffset(d, ec_hdr_offset)
            IN IF vid_hdr_offset > 0
               THEN [err |-> "none", val |-> vid_hdr_offset]
               ELSE [err |-> "UBIFTException", val |-> 0]

(***************************************************************************)
(* Image._guess_block_size                                                 *)
(***************************************************************************)
\* possible_block_sizes: entry k is the Python list's element k-1 (i = k)
PossibleBlockSizes(ps, oob) ==
    [i \in 1 .. (CandidateEnd - 1) |->
        IF oob < 0 THEN i * ps ELSE (i * ps + i * oob)]

\* positions k of possible_block_sizes (Python index k-1) whose candidate
\* passes the test of line 96
MatchingPositions(d, ec_hdr_offset, cands) ==
    {k \in 1 .. Len(cands) :
        Slice(d, ec_hdr_offset + cands[k], ec_hdr_offset + cands[k] + 4)
            = UBI_EC_HDR_magic}

\* the for loop over enumerate(possible_block_sizes) returns at the first
\* position that matches; with Python index i = k-1 the value returned,
\* self.page_size * (i+1), is ps * ((k-1)+1)
BlockSizeLoopOffByOne(d, ec_hdr_offset, ps, cands) ==
    LET hits == MatchingPositions(d, ec_hdr_offset, cands)
    IN IF hits = {}
       THEN [err |-> "UBIFTException", val |-> 0]
       ELSE [err |-> "none", val |-> ps * (MinOf(hits) - 1)]

BlockSizeLoopCandidate(d, ec_hdr_offset, ps, cands) ==
    LET hits == MatchingPositions(d, ec_hdr_offset, cands)
    IN IF hits = {}
       THEN [err |-> "UBIFTException", val |-> 0]
       ELSE [err |-> "none", val |-> cands[MinOf(hits)]]

BlockSizeLoop(d, ec_hdr_offset, ps, cands) ==
    LET hits == MatchingPositions(d, ec_hdr_offset, cands)
    IN IF hits = {}
       THEN [err |-> "UBIFTException", val |-> 0]
       ELSE [err |-> "none", val |-> ps * ((MinOf(hits) - 1) + 1)]

GuessBlockSize(d, ps, oob) ==
    LET ec_hdr_offset == FindSignature(d, UBI_EC_HDR_magic, 0)
    IN IF ec_hdr_offset < 0
       THEN [err |-> "UBIFTException", val |-> 0]
       ELSE BlockSizeLoop(d, ec_hdr_offset, ps, PossibleBlockSizes(ps, oob))

(***************************************************************************)
(* Image.strip_oob                                                         *)
(***************************************************************************)
\* for page in range(0, len(data), 2112): stripped_data += data[page:page+ps]
RECURSIVE StripLoop(_, _, _, _)
StripLoop(d, ps, step, page) ==
    IF page >= Len(d) THEN <<>>
    ELSE Slice(d, page, page + ps) \o StripLoop(d, ps, step, page + step)

\* block_size >= 0, page_size >= 0, oob_size >= 0.  pages = block_size //
\* page_size divides by page_size and blocks = len(data) // block_size by the
\* physical block size; either division raises when its divisor is 0.
StripOob(d, bs, ps, oob) ==
    IF ps = 0 THEN [err |-> "ZeroDivisionError", out |-> <<>>]
    ELSE LET pages == bs \div ps
             phys_block_size == bs + pages * oob
         IN IF phys_block_size = 0
            THEN [err |-> "ZeroDivisionError", out |-> <<>>]
            ELSE [err |-> "none", out |-> StripLoop(d, ps, OobStride, 0)]

(***************************************************************************)
(* Synthetic raw buffers.  A layout names the number of erase blocks, the  *)
(* pages per block, the page size, the out-of-band bytes that follow every *)
(* page in the raw dump (0: none), the value of the vid_hdr_offset field,  *)
(* which blocks start with an erase-counter header ("all", "none", or      *)
(* "skip0": all but the first), and whether the erase-counter magic also   *)
(* sits at the start of the second page of every block (noise).            *)
(***************************************************************************)
BigEndianByte(v, k) == (v \div (256 ^ (VidHdrOffsetLen - 1 - k))) % 256

FillByte(lo) == lo % 31

HasHeader(lay, blk) ==
    \/ lay.hdr = "all"
    \/ lay.hdr = "skip0" /\ blk > 0

\* the byte at logical offset lo of erase block blk
BlockByte(lay, blk, lo) ==
    IF HasHeader(lay, blk) /\ lo < 4
    THEN UBI_EC_HDR_magic[lo + 1]
    ELSE IF HasHeader(lay, blk) /\ lo >= VidHdrOffsetPos
                                /\ lo < VidHdrOffsetPos + VidHdrOffsetLen
    THEN BigEndianByte(lay.vid, lo - VidHdrOffsetPos)
    ELSE IF HasHeader(lay, blk) /\ lo < 64
    THEN 0
    ELSE IF lay.noise /\ lo >= lay.page /\ lo < lay.page + 4
    THEN UBI_EC_HDR_magic[lo - lay.page + 1]
    ELSE FillByte(lo)

\* the byte at raw offset r: every page is followed by lay.poob bytes of 0xFF
RawByte(lay, r) ==
    LET stride == lay.page + lay.poob
        phys_block == lay.pages * stride
        blk == r \div phys_block
        within == r % phys_block
        pg == within \div stride
        off == within % stride
    IN IF off >= lay.page THEN 255
       ELSE BlockByte(lay, blk, pg * lay.page + off)

RawLen(lay) == lay.blocks * lay.pages * (lay.page + lay.poob)

Build(lay) == [r \in 1 .. RawLen(lay) |-> RawByte(lay, r - 1)]

Variants ==
    { [hdr |-> "all",   vidok |-> TRUE,  noise |-> FALSE],
      [hdr |-> "all",   vidok |-> TRUE,  noise |-> TRUE],
      [hdr |-> "all",   vidok |-> FALSE, noise |-> FALSE],
      [hdr |-> "none",  vidok |-> TRUE,  noise |-> FALSE],
      [hdr |-> "skip0", vidok |-> TRUE,  noise |-> FALSE] }

Layouts(poob) ==
    { [blocks |-> b, pages |-> p, page |-> ps, poob |-> poob,
       vid |-> IF v.vidok THEN ps ELSE 0, hdr |-> v.hdr, noise |-> v.noise] :
        b \in 1 .. MaxBlocks, p \in 1 .. MaxPages, ps \in PageSizes,
        v \in Variants }

NoLayout ==
    [blocks |-> 0, pages |-> 0, page |-> 0, poob |-> 0, vid |-> 0,
     hdr |-> "none", noise |-> FALSE]

\* (out-of-band bytes in the dump, oob_size argument)
OobCases == { <<0, -1>>, <<0, 0>>, <<PhysOobSize, PhysOobSize>> }

\* a dump of 2048-byte pages each followed by 64 out-of-band bytes
NandLayout ==
    [blocks |-> 2, pages |-> 2, page |-> 2048, poob |-> 64, vid |-> 2048,
     hdr |-> "all", noise |-> FALSE]

\* (layout, oob_size argument) of the constructor calls
CtorInputs ==
    UNION { { <<lay, oc[2]>> : lay \in Layouts(oc[1]) } : oc \in OobCases }
    \cup { <<NandLayout, NandLayout.poob>> }

NoStrip == [data |-> <<>>, block_size |-> 0, page_size |-> 0, oob_size |-> 0]
NoOutcome == [err |-> "unset", out |-> <<>>]

(***************************************************************************)
(* Image.__init__, statement by statement.                                 *)
(***************************************************************************)
CtorInit ==
    /\ \E in \in CtorInputs :
         /\ built = in[1]
         /\ data = Build(in[1])
         /\ oob_size = in[2]
         /\ block_size \in {-1, 0, in[1].pages * in[1].page, 96}
         /\ page_size \in {-1, 0, in[1].page}
    /\ pc = "L19"
    /\ error = "none"
    /\ log = {}
    /\ _oob_size = -1
    /\ _page_size = 0
    /\ _block_size = 0
    /\ _data = <<>>
    /\ has_data = FALSE
    /\ scan_page = "none"
    /\ scan_block = "none"
    /\ _partitions = <<>>
    /\ full_partitions = NoOutcome
    /\ strip_in = NoStrip
    /\ strip_out = NoOutcome

\* the bytes of the object a name refers to
Deref(ref) == IF ref = "self._data" THEN _data ELSE data

ScanArgumentSelfData == "self._data"

\* the object lines 20 and 21 hand to _guess_page_size and _guess_block_size:
\* the constructor's argument data
ScanArgument == "data"

\* line 19: self._oob_size = oob_size
SetOobSize ==
    /\ pc = "L19"
    /\ _oob_size' = oob_size
    /\ pc' = "L20"
    /\ UNCHANGED <<data, block_size, page_size, oob_size, built, error, log,
                   _page_size, _block_size, _data, has_data, scan_page,
                   scan_block, _partitions, full_partitions, strip_in,
                   strip_out>>

\* line 20: self._page_size = page_size if page_size > 0
\*                            else self._guess_page_size(data)
ResolvePageSize ==
    /\ pc = "L20"
    /\ IF page_size > 0
       THEN /\ _page_size' = page_size
            /\ pc' = "L21"
            /\ UNCHANGED <<error, scan_page>>
       ELSE LET r == GuessPageSize(Deref(ScanArgument))
            IN /\ scan_page' = ScanArgument
               /\ IF r.err = "none"
                  THEN /\ _page_size' = r.val
                       /\ pc' = "L21"
                       /\ UNCHANGED error
                  ELSE /\ pc' = "raised"
                       /\ error' = r.err
                       /\ UNCHANGED _page_size
    /\ UNCHANGED <<data, block_size, page_size, oob_size, built, log,
                   _oob_size, _block_size, _data, has_data, scan_block,
                   _partitions, full_partitions, strip_in, strip_out>>

\* line 21: self._block_size = block_size if block_size > 0
\*                             else self._guess_block_size(data)
ResolveBlockSize ==
    /\ pc = "L21"
    /\ IF block_size > 0
       THEN /\ _block_size' = block_size
            /\ pc' = "L22"
            /\ UNCHANGED <<error, scan_block>>
       ELSE LET r == GuessBlockSize(Deref(ScanArgument), _page_size, _oob_size)
            IN /\ scan_block' = ScanArgument
               /\ IF r.err = "none"
                  THEN /\ _block_size' = r.val
                       /\ pc' = "L22"
                       /\ UNCHANGED error
                  ELSE /\ pc' = "raised"
                       /\ error' = r.err
                       /\ UNCHANGED _block_size
    /\ UNCHANGED <<data, block_size, page_size, oob_size, built, log,
                   _oob_size, _page_size, _data, has_data, scan_page,
                   _partitions, full_partitions, strip_in, strip_out>>

\* lines 22-23: self._data = data if oob_size < 0 else Image.strip_oob(...);
\*              self._partitions = []
StripData ==
    /\ pc = "L22"
    /\ LET r == IF oob_size < 0
                THEN [err |-> "none", out |-> data]
                ELSE StripOob(data, _block_size, _page_size, oob_size)
       IN IF r.err = "none"
          THEN /\ _data' = r.out
               /\ has_data' = TRUE
               /\ pc' = "L25"
               /\ UNCHANGED error
          ELSE /\ pc' = "raised"
               /\ error' = r.err
               /\ UNCHANGED <<_data, has_data>>
    /\ _partitions' = <<>>
    /\ UNCHANGED <<data, block_size, page_size, oob_size, built, log,
                   _oob_size, _page_size, _block_size, scan_page, scan_block,
                   full_partitions, strip_in, strip_out>>

\* lines 25-27: if len(self._data) % block_size != 0: ubiftlog.error(...)
\* (the operand is the argument block_size, not self.block_size)
ValidateBlockSize ==
    /\ pc = "L25"
    /\ IF block_size = 0
       THEN /\ pc' = "raised"
            /\ error' = "ZeroDivisionError"
            /\ UNCHANGED log
       ELSE /\ log' = IF PyMod(Len(_data), block_size) # 0
                      THEN log \cup {"block_size"} ELSE log
            /\ pc' = "L28"
            /\ UNCHANGED error
    /\ UNCHANGED <<data, block_size, page_size, oob_size, built, _oob_size,
                   _page_size, _block_size, _data, has_data, scan_page,
                   scan_block, _partitions, full_partitions, strip_in,
                   strip_out>>

\* lines 28-32: if block_size % page_size != 0: ubiftlog.error(...)
\* (both operands are the constructor's arguments)
ValidatePageSize ==
    /\ pc = "L28"
    /\ IF page_size = 0
       THEN /\ pc' = "raised"
            /\ error' = "ZeroDivisionError"
            /\ UNCHANGED log
       ELSE /\ log' = IF PyMod(block_size, page_size) # 0
                      THEN log \cup {"page_size"} ELSE log
            /\ pc' = "done"
            /\ UNCHANGED error
    /\ UNCHANGED <<data, block_size, page_size, oob_size, built, _oob_size,
                   _page_size, _block_size, _data, has_data, scan_page,
                   scan_block, _partitions, full_partitions, strip_in,
                   strip_out>>

CtorNext ==
    \/ SetOobSize
    \/ ResolvePageSize
    \/ ResolveBlockSize
    \/ StripData
    \/ ValidateBlockSize
    \/ ValidatePageSize

Spec == CtorInit /\ [][CtorNext]_vars

(***************************************************************************)
(* Partition and the partition table.  A Partition is the record of its    *)
(* offset, end and name.  Partition defines no __eq__, so list.index       *)
(* compares identities; the partitions of one table cover disjoint ranges, *)
(* so equal records are the same object.                                   *)
(***************************************************************************)
Partition(offset, end, name) == [offset |-> offset, end |-> end, name |-> name]

\* geometry of the image that carries the partition table
TableImage == [block_size |-> 2048, page_size |-> 512]

TableImageLen == MaxImageBlocks * TableImage.block_size

DeclaredName(a) == IF a % 2 = 1 THEN "root" ELSE "data"

\* declared partitions: whole erase blocks a..b of the image
Declared ==
    { Partition(ab[1] * TableImage.block_size,
                (ab[2] + 1) * TableImage.block_size - 1, DeclaredName(ab[1])) :
        ab \in { x \in (0 .. (MaxImageBlocks - 1)) \X (0 .. (MaxImageBlocks - 1)) :
                    x[1] <= x[2] } }

Overlap(p, q) == p.offset <= q.end /\ q.offset <= p.end

\* partition tables: pairwise disjoint partitions in any declaration order
Tables ==
    { t \in UNION { [1 .. k -> Declared] :
                    k \in 0 .. MaxImageBlocks } :
        \A i, j \in DOMAIN t : i # j => ~Overlap(t[i], t[j]) }

\* the partitions property (lines 34-38): with an empty table it returns a
\* Partition object, not a list
PartitionsProperty ==
    IF Len(_partitions) = 0
    THEN [kind |-> "Partition",
          value |-> <<Partition(0, Len(_data) - 1, "Unallocated")>>]
    ELSE [kind |-> "list", value |-> _partitions]

\* list.insert(idx, x) for 0 <= idx <= len(list)
Insert(list, idx, x) ==
    SubSeq(list, 1, idx) \o <<x>> \o SubSeq(list, idx + 1, Len(list))

\* list.index(x) for x in list
Index(list, x) == MinOf({k \in 1 .. Len(list) : list[k] = x}) - 1

\* list.sort(key=lambda partition: partition.offset): a stable sort
RECURSIVE SortByOffset(_)
SortByOffset(list) ==
    IF list = <<>> THEN <<>>
    ELSE LET k == MinOf({i \in 1 .. Len(list) :
                           \A j \in 1 .. Len(list) :
                              \/ list[i].offset < list[j].offset
                              \/ list[i].offset = list[j].offset /\ i <= j})
         IN <<list[k]>> \o
            SortByOffset(SubSeq(list, 1, k - 1) \o SubSeq(list, k + 1, Len(list)))

\* lines 50-66: the loop body from Python index i on; parts is the sorted
\* self.partitions, full the list built so far, n is len(self.data)
RECURSIVE FillLoop(_, _, _, _)
FillLoop(parts, full, i, n) ==
    IF i >= Len(parts) THEN full
    ELSE LET partition == parts[i + 1]
         IN IF i + 1 >= Len(parts)
            THEN IF partition.end # n - 1
                 THEN Append(full, Partition(partition.end + 1, n - 1,
                                             "Unallocated"))
                 ELSE full
            ELSE LET full1 ==
                         IF i = 0 /\ partition.offset # 0
                         THEN Insert(full, 0,
                                     Partition(0, parts[i + 1].offset - 1,
                                               "Unallocated"))
                         ELSE full
                     full2 ==
                         IF partition.end + 1 # parts[i + 2].offset
                         THEN Insert(full1, Index(full1, partition) + 1,
                                     Partition(partition.end + 1,
                                               parts[i + 2].offset - 1,
                                               "Unallocated"))
                         ELSE full1
                 IN FillLoop(parts, full2, i + 1, n)

\* Image.partitions setter (lines 70-72)
SetPartitions ==
    /\ pc = "done"
    /\ \E t \in Tables : _partitions' = t
    /\ full_partitions' = NoOutcome
    /\ UNCHANGED <<ctorVars, strip_in, strip_out>>

\* Image.get_full_partitions (lines 40-68)
GetFullPartitions ==
    /\ pc = "done"
    /\ IF PartitionsProperty.kind # "list"
       THEN \* a Partition has no copy(): line 48 raises
            /\ full_partitions' = [err |-> "AttributeError", out |-> <<>>]
            /\ UNCHANGED _partitions
       ELSE LET full == _partitions                \* line 48: the copy
                sorted == SortByOffset(_partitions) \* line 49: the sort
            IN /\ _partitions' = sorted
               /\ full_partitions' =
                      [err |-> "none",
                       out |-> FillLoop(sorted, full, 0, Len(_data))]
    /\ UNCHANGED <<ctorVars, strip_in, strip_out>>

ZeroBuffer(n) == [i \in 1 .. n |-> 0]

\* Image(bytes(TableImageLen), block_size=2048, page_size=512) as constructed
TableInit ==
    /\ data = ZeroBuffer(TableImageLen)
    /\ block_size = TableImage.block_size
    /\ page_size = TableImage.page_size
    /\ oob_size = -1
    /\ built = NoLayout
    /\ pc = "done"
    /\ error = "none"
    /\ log = {}
    /\ _oob_size = -1
    /\ _page_size = TableImage.page_size
    /\ _block_size = TableImage.block_size
    /\ _data = ZeroBuffer(TableImageLen)
    /\ has_data = TRUE
    /\ scan_page = "none"
    /\ scan_block = "none"
    /\ _partitions = <<>>
    /\ full_partitions = NoOutcome
    /\ strip_in = NoStrip
    /\ strip_out = NoOutcome

TableNext ==
    \/ SetPartitions
    \/ GetFullPartitions

SpecPartitions == TableInit /\ [][TableNext]_vars

(***************************************************************************)
(* Image.strip_oob called directly.                                        *)
(***************************************************************************)
\* buffers whose bytes tell their positions apart
Ramp(n) == [i \in 1 .. n |-> (i - 1) % 251]

StripLens == (0 .. MaxStripLen) \cup {OobStride, 2 * OobStride}

StripInit ==
    /\ \E n \in StripLens, ps \in {1, 2, 3, 2048}, oob \in {0, 1, 2, 64},
          pages \in {0, 1, 2} :
         strip_in = [data |-> Ramp(n), block_size |-> pages * ps,
                     page_size |-> ps, oob_size |-> oob]
    /\ strip_out = NoOutcome
    /\ data = <<>>
    /\ block_size = -1
    /\ page_size = -1
    /\ oob_size = -1
    /\ built = NoLayout
    /\ pc = "none"
    /\ error = "none"
    /\ log = {}
    /\ _oob_size = -1
    /\ _page_size = 0
    /\ _block_size = 0
    /\ _data = <<>>
    /\ has_data = FALSE
    /\ scan_page = "none"
    /\ scan_block = "none"
    /\ _partitions = <<>>
    /\ full_partitions = NoOutcome

CallStripOob ==
    /\ strip_out = NoOutcome
    /\ strip_out' = StripOob(strip_in.data, strip_in.block_size,
                             strip_in.page_size, strip_in.oob_size)
    /\ UNCHANGED <<ctorVars, _partitions, full_partitions, strip_in>>

StripNext == CallStripOob

SpecStrip == StripInit /\ [][StripNext]_vars

(***************************************************************************)
(* Properties of get_full_partitions (checked under SpecPartitions).       *)
(***************************************************************************)
Called == full_partitions.err # "unset"

Unallocated(offset, end) == Partition(offset, end, "Unallocated")

\* the list tiles [0, n-1]: starts at 0, ends at n-1, each end+1 is the next
\* offset
Tiles(list, n) ==
    /\ Len(list) >= 1
    /\ list[1].offset = 0
    /\ list[Len(list)].end = n - 1
    /\ \A k \in 1 .. (Len(list) - 1) : list[k].end + 1 = list[k + 1].offset

LowestOffset == MinOf({_partitions[k].offset : k \in DOMAIN _partitions})

\* C1: for every table of pairwise disjoint partitions inside the image, in
\* any declaration order and including the empty table, the list returned by
\* get_full_partitions() tiles [0, len(data)-1] exactly.
C1_TilingTotal ==
    Called =>
        /\ full_partitions.err = "none"
        /\ Tiles(full_partitions.out, Len(_data))

\* C2: with a non-empty table whose lowest partition starts above 0, the first
\* element returned is "Unallocated" [0, first.offset-1]; a single partition
\* root [2048,4095] over 8192 bytes yields Unallocated [0,2047],
\* root [2048,4095], Unallocated [4096,8191].
C2_LeadingFiller ==
    (Called /\ Len(_partitions) >= 1 /\ LowestOffset > 0) =>
        /\ full_partitions.err = "none"
        /\ full_partitions.out[1] = Unallocated(0, LowestOffset - 1)
        /\ (Len(_data) = 8192 /\ _partitions = <<Partition(2048, 4095, "root")>>)
             => full_partitions.out = << Unallocated(0, 2047),
                                         Partition(2048, 4095, "root"),
                                         Unallocated(4096, 8191) >>

\* C3: with no table assigned, or an empty one, get_full_partitions() returns
\* normally the one-element list "Unallocated" [0, len(data)-1].
C3_EmptyTable ==
    (Called /\ _partitions = <<>>) =>
        /\ full_partitions.err = "none"
        /\ full_partitions.out = <<Unallocated(0, Len(_data) - 1)>>

\* C4: whatever the declaration order, the returned list ascends by offset and
\* the filler of a gap between offset-adjacent partitions p and q sits
\* directly after p and directly before q.
C4_AscendingOrder ==
    (Called /\ Len(_partitions) >= 1) =>
        LET out == full_partitions.out
            sorted == SortByOffset(_partitions)
        IN /\ full_partitions.err = "none"
           /\ \A k \in 1 .. (Len(out) - 1) : out[k].offset < out[k + 1].offset
           /\ \A k \in 1 .. (Len(sorted) - 1) :
                sorted[k].end + 1 # sorted[k + 1].offset =>
                    \E m \in 1 .. (Len(out) - 2) :
                        /\ out[m] = sorted[k]
                        /\ out[m + 1] = Unallocated(sorted[k].end + 1,
                                                    sorted[k + 1].offset - 1)
                        /\ out[m + 2] = sorted[k + 1]

(***************************************************************************)
(* Properties of strip_oob (checked under SpecStrip).                      *)
(***************************************************************************)
\* the bytes of d whose offset lies in the leading ps bytes of its stride,
\* in order: byte j of the result is byte (j div ps) * stride + j mod ps of d
LeadingBytes(d, ps, stride) ==
    LET kept == (Len(d) \div stride) * ps + MinInt(Len(d) % stride, ps)
    IN [j \in 1 .. kept |-> d[((j - 1) \div ps) * stride + ((j - 1) % ps) + 1]]

\* C6: for every buffer, page_size > 0 and oob_size >= 0, strip_oob returns
\* the leading page_size bytes of each consecutive stride of
\* page_size + oob_size bytes, in order; with oob_size = 0 it returns the
\* buffer unchanged.  Stated for block_size > 0 (a block_size of 0 makes
\* line 132 divide by zero).
C6_StripByDeclaredStride ==
    (strip_out.err # "unset" /\ strip_in.page_size > 0
                             /\ strip_in.block_size > 0
                             /\ strip_in.oob_size >= 0) =>
        /\ strip_out.err = "none"
        /\ strip_out.out = LeadingBytes(strip_in.data, strip_in.page_size,
                                        strip_in.page_size + strip_in.oob_size)
        /\ strip_in.oob_size = 0 => strip_out.out = strip_in.data

(***************************************************************************)
(* Properties of Image.__init__ (checked under Spec).                      *)
(***************************************************************************)
Terminal == pc \in {"done", "raised"}

PageInferred == page_size <= 0
BlockInferred == block_size <= 0

\* _guess_block_size was called and returned a value
BlockGuessed == scan_block # "none" /\ error # "UBIFTException"

MagicAt(d, offset) == Slice(d, offset, offset + 4) = UBI_EC_HDR_magic

\* m0: the first offset of the erase-counter-header magic in the raw buffer
FirstMagic == FindSignature(data, UBI_EC_HDR_magic, 0)

NoMagic == FirstMagic < 0

VidNotPositive == ~NoMagic /\ EcHdrVidHdrOffset(data, FirstMagic) <= 0

\* c(i) for the resolved page size and the declared out-of-band size
Candidate(i) ==
    IF _oob_size < 0 THEN i * _page_size ELSE i * _page_size + i * _oob_size

NoRecurrence ==
    LET m0 == FirstMagic
    IN /\ m0 >= 0
       /\ \A i \in 1 .. (CandidateEnd - 1) : ~MagicAt(data, m0 + Candidate(i))

\* C5 (as stated): with oob_size >= 0 the strip comes first and each
\* inference scans the stripped buffer, i.e. the buffer scanned is Image.data.
\* Stated for oob_size > 0, where stripping removes bytes whatever stride
\* strip_oob walks with.
C5_InferenceScansStripped ==
    (pc = "done" /\ oob_size > 0) =>
        /\ scan_page # "none" => Deref(scan_page) = _data
        /\ scan_block # "none" => Deref(scan_block) = _data

\* C5 (amended): with oob_size >= 0 both inferences run before the strip and
\* scan the raw buffer given to the constructor; Image.data is assigned only
\* after page size and block size are resolved.
C5_InferenceScansRaw ==
    oob_size >= 0 =>
        /\ pc \in {"L19", "L20", "L21", "L22"} => ~has_data
        /\ has_data => (_page_size > 0 /\ _block_size > 0)
        /\ scan_page # "none" => scan_page = "data"
        /\ scan_block # "none" => scan_block = "data"

C5_Witness ==
    /\ pc = "done"
    /\ oob_size > 0
    /\ scan_page = "data"
    /\ scan_block = "data"
    /\ _data # data

\* a buffer of whole erase blocks, each starting with an erase-counter header
\* whose vid_hdr_offset is the page size, given without any geometry hint
C7_Case ==
    /\ built.hdr = "all"
    /\ built.vid = built.page
    /\ built.poob = 0
    /\ block_size = -1
    /\ page_size = -1
    /\ oob_size = -1

C7_Exact ==
    /\ pc = "done"
    /\ _page_size = built.page
    /\ _block_size = built.pages * built.page

\* no page of the first erase block other than its first starts with the magic
NoStrayMagic ==
    \A k \in 1 .. (built.pages - 1) : ~MagicAt(data, k * built.page)

\* C7 (as stated): for N >= 1 such blocks, construction without hints
\* succeeds and yields exactly the constructed page_size and block_size.
C7_InferenceExactAnyN ==
    (Terminal /\ C7_Case) => C7_Exact

\* C7 (amended): the same for N >= 2 blocks of at most 511 pages in which no
\* other page of the first block starts with the magic.
C7_InferenceExact ==
    (Terminal /\ C7_Case /\ built.blocks >= 2
              /\ built.pages < CandidateEnd /\ NoStrayMagic) => C7_Exact

C7_Witness ==
    /\ pc = "done"
    /\ C7_Case
    /\ built.blocks >= 2
    /\ built.pages >= 2
    /\ NoStrayMagic
    /\ _block_size = built.pages * built.page

GeometryError == pc = "raised" /\ error = "UBIFTException"

NoDefaultedGeometry == pc = "done" => (_page_size > 0 /\ _block_size > 0)

\* C8 (as stated): whenever either size has to be inferred and the buffer has
\* no magic, or the first header's vid_hdr_offset is not positive, or the
\* magic recurs at no candidate offset, construction raises the geometry
\* error; no Image with a non-positive size is produced.  Constructors ended
\* by the division of line 25 or 28 are left aside.
C8_FailureFatalAnyInference ==
    /\ (Terminal /\ error # "ZeroDivisionError"
                 /\ (PageInferred \/ BlockInferred)
                 /\ (NoMagic \/ VidNotPositive \/ NoRecurrence)) => GeometryError
    /\ NoDefaultedGeometry

\* C8 (amended): construction raises the geometry error whenever page_size has
\* to be inferred and the buffer has no magic or the first header's
\* vid_hdr_offset is not positive, and whenever block_size has to be inferred
\* and the buffer has no magic or the magic recurs at no candidate offset; no
\* Image with a non-positive size is produced.
C8_FailureFatal ==
    /\ (Terminal /\ PageInferred /\ (NoMagic \/ VidNotPositive)) => GeometryError
    /\ (Terminal /\ BlockInferred /\ (NoMagic \/ NoRecurrence)) => GeometryError
    /\ NoDefaultedGeometry

C8_Witness ==
    /\ GeometryError
    /\ PageInferred
    /\ VidNotPositive

\* C9: whenever inference succeeds construction completes without raising,
\* and the block-size warning is logged exactly when
\* len(Image.data) % Image.block_size != 0, the page-size warning exactly when
\* Image.block_size % Image.page_size != 0.
C9_ValidationOfResolvedGeometry ==
    (Terminal /\ error # "UBIFTException") =>
        /\ pc = "done"
        /\ ("block_size" \in log) <=> (Len(_data) % _block_size # 0)
        /\ ("page_size" \in log) <=> (_block_size % _page_size # 0)

\* i is the smallest index in 1..511 for which the magic sits at m0 + c(i)
SmallestMatch(m0, i) ==
    /\ MagicAt(data, m0 + Candidate(i))
    /\ \A j \in 1 .. (i - 1) : ~MagicAt(data, m0 + Candidate(j))

\* C10 (as stated): the guessed block size is the candidate c(i) of the
\* smallest i in 1..511 for which the magic reappears at m0 + c(i), with or
\* without a declared out-of-band region.
C10_GuessIsCandidate ==
    BlockGuessed =>
        LET m0 == FirstMagic
        IN \E i \in 1 .. (CandidateEnd - 1) :
              SmallestMatch(m0, i) /\ _block_size = Candidate(i)

\* C10 (amended): the guessed block size is i * page_size for the smallest i
\* in 1..511 for which the magic reappears at m0 + c(i); this is c(i) itself
\* when no out-of-band region is declared.
C10_GuessIsPagesTimesPageSize ==
    BlockGuessed =>
        LET m0 == FirstMagic
        IN \E i \in 1 .. (CandidateEnd - 1) :
              /\ SmallestMatch(m0, i)
              /\ _block_size = i * _page_size
              /\ _oob_size < 0 => _block_size = Candidate(i)

C10_Witness ==
    /\ BlockGuessed
    /\ _oob_size > 0
    /\ FirstMagic > 0
    /\ _block_size >= 2 * _page_size

=============================================================================
